---------------------------- MODULE Spec2Model ----------------------------
(***************************************************************************)
(* finance_dashboard.py: a Streamlit script.  Every change of a sidebar    *)
(* widget reruns the script top to bottom in a fresh namespace: it reads   *)
(* the widgets into globals, calls run_model once per scenario (A, B) and  *)
(* renders the results.                                                    *)
(*                                                                         *)
(* Numbers.  The script computes in Python floats.  The model computes the *)
(* same expressions over exact rationals extended with the two non-finite  *)
(* outcomes of a float division by zero (inf, nan); rounding error of the  *)
(* binary64 format is not modelled.  Numerators outgrow TLC's 32-bit       *)
(* integers (money * (1 + r)^years), so a rational is a signed             *)
(* arbitrary-precision numerator over a bag of positive factors.           *)
(***************************************************************************)
EXTENDS Integers, Sequences, FiniteSets, Bags, TLC

(***************************************************************************)
(* Arbitrary-precision naturals: little-endian sequences of limbs below    *)
(* Base, without leading zero limbs; <<>> is zero.  The operators split    *)
(* their operands in halves, which keeps the evaluation depth logarithmic  *)
(* in the length.                                                          *)
(***************************************************************************)
Base == 100 * 100

RECURSIVE BN(_)
BN(n) == IF n = 0 THEN <<>> ELSE <<n % Base>> \o BN(n \div Base)

BOne == <<1>>

Limb(a, i) == IF i <= Len(a) THEN a[i] ELSE 0

Max2(x, y) == IF x >= y THEN x ELSE y

\* a without its leading zero limbs
Strip(a) ==
    LET nz == {i \in 1..Len(a) : a[i] # 0}
    IN  IF nz = {} THEN <<>>
        ELSE SubSeq(a, 1, CHOOSE i \in nz : \A j \in nz : j <= i)

\* limbs lo..hi of a + b + c: <<limbs, carry out>>
RECURSIVE AddBlock(_, _, _, _, _)
AddBlock(a, b, lo, hi, c) ==
    IF lo = hi
    THEN LET s == Limb(a, lo) + Limb(b, lo) + c
         IN  <<(<<s % Base>>), s \div Base>>
    ELSE LET mid == (lo + hi) \div 2
             L == AddBlock(a, b, lo, mid, c)
             H == AddBlock(a, b, mid + 1, hi, L[2])
         IN  <<L[1] \o H[1], H[2]>>

BAdd(a, b) ==
    IF a = <<>> THEN b
    ELSE IF b = <<>> THEN a
    ELSE LET r == AddBlock(a, b, 1, Max2(Len(a), Len(b)), 0)
         IN  IF r[2] = 0 THEN r[1] ELSE Append(r[1], r[2])

\* limbs lo..hi of a - b - c: <<limbs, borrow out>>
RECURSIVE SubBlock(_, _, _, _, _)
SubBlock(a, b, lo, hi, c) ==
    IF lo = hi
    THEN LET s == Limb(a, lo) - Limb(b, lo) - c
         IN  IF s < 0 THEN <<(<<s + Base>>), 1>> ELSE <<(<<s>>), 0>>
    ELSE LET mid == (lo + hi) \div 2
             L == SubBlock(a, b, lo, mid, c)
             H == SubBlock(a, b, mid + 1, hi, L[2])
         IN  <<L[1] \o H[1], H[2]>>

\* a - b for a >= b
BSub(a, b) ==
    IF b = <<>> THEN a ELSE Strip(SubBlock(a, b, 1, Len(a), 0)[1])

\* the order of limbs lo..hi: -1, 0, 1 as a < b, a = b, a > b
RECURSIVE CmpBlock(_, _, _, _)
CmpBlock(a, b, lo, hi) ==
    IF lo = hi
    THEN IF a[lo] < b[lo] THEN -1 ELSE IF a[lo] > b[lo] THEN 1 ELSE 0
    ELSE LET mid == (lo + hi) \div 2
             H == CmpBlock(a, b, mid + 1, hi)
         IN  IF H # 0 THEN H ELSE CmpBlock(a, b, lo, mid)

BCmp(a, b) ==
    IF Len(a) < Len(b) THEN -1
    ELSE IF Len(a) > Len(b) THEN 1
    ELSE IF a = <<>> THEN 0
    ELSE CmpBlock(a, b, 1, Len(a))

\* limbs lo..hi of a * m + c for a native 0 < m < Base: <<limbs, carry out>>
RECURSIVE MulBlock(_, _, _, _, _)
MulBlock(a, m, lo, hi, c) ==
    IF lo = hi
    THEN LET s == a[lo] * m + c
         IN  <<(<<s % Base>>), s \div Base>>
    ELSE LET mid == (lo + hi) \div 2
             L == MulBlock(a, m, lo, mid, c)
             H == MulBlock(a, m, mid + 1, hi, L[2])
         IN  <<L[1] \o H[1], H[2]>>

BMulSmall(a, m) ==
    IF m = 0 \/ a = <<>> THEN <<>>
    ELSE LET r == MulBlock(a, m, 1, Len(a), 0)
         IN  IF r[2] = 0 THEN r[1] ELSE Append(r[1], r[2])

\* a * Base^n
BShift(a, n) == IF a = <<>> THEN <<>> ELSE [i \in 1..n |-> 0] \o a

\* a times the limbs lo..hi of b
RECURSIVE BMulBlock(_, _, _, _)
BMulBlock(a, b, lo, hi) ==
    IF lo = hi THEN BMulSmall(a, b[lo])
    ELSE LET mid == (lo + hi) \div 2
         IN  BAdd(BMulBlock(a, b, lo, mid),
                  BShift(BMulBlock(a, b, mid + 1, hi), mid + 1 - lo))

BMul(a, b) ==
    IF a = <<>> \/ b = <<>> THEN <<>>
    ELSE BMulBlock(IF Len(a) >= Len(b) THEN a ELSE b,
                   IF Len(a) >= Len(b) THEN b ELSE a,
                   1, IF Len(a) >= Len(b) THEN Len(b) ELSE Len(a))

BSquare(a) == BMul(a, a)

RECURSIVE BPow(_, _)
BPow(a, n) ==
    IF n = 0 THEN BOne
    ELSE IF n = 1 THEN a
    ELSE BMul(BSquare(BPow(a, n \div 2)), IF n % 2 = 0 THEN BOne ELSE a)

\* the native value of a natural of at most two limbs
BSmall(a) == Len(a) <= 2
BVal(a) == Limb(a, 1) + Base * Limb(a, 2)

RECURSIVE GCD(_, _)
GCD(x, y) == IF y = 0 THEN x ELSE GCD(y, x % y)

(***************************************************************************)
(* Bags of factors (naturals above 1) standing for their product.          *)
(***************************************************************************)
Cnt(b, x) == IF x \in DOMAIN b THEN b[x] ELSE 0

BagOf(a) == IF a = BOne THEN EmptyBag ELSE SetToBag({a})

\* the factors of a with the count it has above b's (a "divided by" b)
BagOver(a, b) ==
    LET D == {x \in DOMAIN a : a[x] > Cnt(b, x)}
    IN  [x \in D |-> a[x] - Cnt(b, x)]

\* the least bag holding both
BagLcm(a, b) ==
    [x \in DOMAIN a \cup DOMAIN b |-> Max2(Cnt(a, x), Cnt(b, x))]

BagTimes(a, n) == IF n = 0 THEN EmptyBag ELSE [x \in DOMAIN a |-> a[x] * n]

RECURSIVE BagProd(_)
BagProd(b) ==
    IF DOMAIN b = {} THEN BOne
    ELSE LET x == CHOOSE y \in DOMAIN b : TRUE
         IN  BMul(BPow(x, b[x]), BagProd([y \in DOMAIN b \ {x} |-> b[y]]))

(***************************************************************************)
(* Numbers of the script: Python floats, modelled as                       *)
(*   [k |-> "fin", neg, m, d]   the rational (-1)^neg * m / product(d),    *)
(*                              m = <<>> being the signed zero +0 or -0,   *)
(*   [k |-> "inf", neg]         +inf or -inf,                              *)
(*   [k |-> "nan"].                                                        *)
(* The operators follow IEEE 754 for zeros, infinities and NaN (numpy      *)
(* divides by zero without raising) and are exact on finite values.        *)
(***************************************************************************)
RNaN == [k |-> "nan"]
RInf(neg) == [k |-> "inf", neg |-> neg]
RFin(neg, m, d) ==
    [k |-> "fin", neg |-> neg, m |-> m, d |-> IF m = <<>> THEN EmptyBag ELSE d]

\* float(n) of a Python int
RInt(n) == IF n < 0 THEN RFin(TRUE, BN(-n), EmptyBag) ELSE RFin(FALSE, BN(n), EmptyBag)

IsFin(x) == x.k = "fin"
IsZero(x) == x.k = "fin" /\ x.m = <<>>

\* -x
RNeg(x) ==
    IF x.k = "nan" THEN x ELSE [x EXCEPT !.neg = ~x.neg]

\* the numerator of a finite x over the factors L, which hold x.d
Scaled(x, L) == BMul(x.m, BagProd(BagOver(L, x.d)))

\* (-1)^xneg * a / L + (-1)^yneg * b / L for a, b above zero
AddOver(xneg, a, yneg, b, L) ==
    IF xneg = yneg THEN RFin(xneg, BAdd(a, b), L)
    ELSE IF BCmp(a, b) = 0 THEN RFin(FALSE, <<>>, EmptyBag)
    ELSE IF BCmp(a, b) > 0 THEN RFin(xneg, BSub(a, b), L)
    ELSE RFin(yneg, BSub(b, a), L)

\* x + y
RAdd(x, y) ==
    IF x.k = "nan" \/ y.k = "nan" THEN RNaN
    ELSE IF x.k = "inf"
         THEN IF y.k = "inf" /\ y.neg # x.neg THEN RNaN ELSE x
    ELSE IF y.k = "inf" THEN y
    ELSE IF x.m = <<>> /\ y.m = <<>> THEN RFin(x.neg /\ y.neg, <<>>, EmptyBag)
    ELSE IF x.m = <<>> THEN y
    ELSE IF y.m = <<>> THEN x
    ELSE AddOver(x.neg, Scaled(x, BagLcm(x.d, y.d)),
                 y.neg, Scaled(y, BagLcm(x.d, y.d)), BagLcm(x.d, y.d))

\* x - y
RSub(x, y) == RAdd(x, RNeg(y))

\* x * y
RMul(x, y) ==
    IF x.k = "nan" \/ y.k = "nan" THEN RNaN
    ELSE IF x.k = "inf" \/ y.k = "inf"
         THEN IF IsZero(x) \/ IsZero(y) THEN RNaN ELSE RInf(x.neg # y.neg)
    ELSE RFin(x.neg # y.neg, BMul(x.m, y.m), x.d (+) y.d)

\* (-1)^neg * n / (a * product(d)), with n and a freed of their common
\* divisor when both are small
Lowest(neg, n, a, d) ==
    IF BSmall(n) /\ BSmall(a)
    THEN RFin(neg, BN(BVal(n) \div GCD(BVal(n), BVal(a))),
              d (+) BagOf(BN(BVal(a) \div GCD(BVal(n), BVal(a)))))
    ELSE RFin(neg, n, d (+) BagOf(a))

\* x / y
RDiv(x, y) ==
    IF x.k = "nan" \/ y.k = "nan" THEN RNaN
    ELSE IF x.k = "inf"
         THEN IF y.k = "inf" THEN RNaN ELSE RInf(x.neg # y.neg)
    ELSE IF y.k = "inf" THEN RFin(x.neg # y.neg, <<>>, EmptyBag)
    ELSE IF y.m = <<>>
         THEN IF x.m = <<>> THEN RNaN ELSE RInf(x.neg # y.neg)
    ELSE Lowest(x.neg # y.neg, Scaled(x, x.d (+) BagOver(y.d, x.d)), y.m,
                BagOver(x.d, y.d))

\* x ** n for a finite x > 0 and a (signed) integer n
RPow(x, n) ==
    IF n >= 0 THEN RFin(FALSE, BPow(x.m, n), BagTimes(x.d, n))
    ELSE RFin(FALSE, BagProd(BagTimes(x.d, -n)), BagOf(BPow(x.m, -n)))

\* the order of two finite numbers: -1, 0, 1 as x < y, x = y, x > y
RSign(x) == IF x.m = <<>> THEN 0 ELSE IF x.neg THEN -1 ELSE 1
RCmp(x, y) == RSign(RSub(x, y))

\* numeric comparisons as Python makes them (every comparison with nan is false)
REq(x, y) ==
    /\ x.k # "nan" /\ y.k # "nan"
    /\ IF x.k = "inf" \/ y.k = "inf" THEN x = y ELSE RCmp(x, y) = 0
RLt(x, y) ==
    /\ x.k # "nan" /\ y.k # "nan"
    /\ IF x.k = "inf" THEN x.neg /\ x # y
       ELSE IF y.k = "inf" THEN ~y.neg
       ELSE RCmp(x, y) < 0

(***************************************************************************)
(* f"${x:,.0f}": the sign and the digits of x rounded to the nearest whole *)
(* number, ties to even ("inf" and "nan" for the non-finite values).  The  *)
(* digits are kept as the natural they write.                              *)
(***************************************************************************)
\* the largest c in lo..hi with (acc + c * Base^p) * d <= n
RECURSIVE QuotLimb(_, _, _, _, _, _)
QuotLimb(n, d, acc, p, lo, hi) ==
    IF lo = hi THEN lo
    ELSE IF BCmp(BMul(BAdd(acc, BShift(BN((lo + hi + 1) \div 2), p)), d), n) <= 0
         THEN QuotLimb(n, d, acc, p, (lo + hi + 1) \div 2, hi)
         ELSE QuotLimb(n, d, acc, p, lo, (lo + hi + 1) \div 2 - 1)

\* acc plus the limbs p, p - 1, ..., 0 of the quotient n \div d
RECURSIVE QuotFrom(_, _, _, _)
QuotFrom(n, d, acc, p) ==
    IF p < 0 THEN acc
    ELSE QuotFrom(n, d,
                  BAdd(acc, BShift(BN(QuotLimb(n, d, acc, p, 0, Base - 1)), p)),
                  p - 1)

\* n \div d for d > 0
BDiv(n, d) == QuotFrom(n, d, <<>>, Max2(Len(n) - Len(d), 0))

\* q or q + 1 as twice the remainder is below (c < 0), at or above d
HalfEven(q, c) ==
    IF c > 0 \/ (c = 0 /\ Limb(q, 1) % 2 = 1) THEN BAdd(q, BOne) ELSE q

Nearest(n, d, q) == HalfEven(q, BCmp(BMulSmall(BSub(n, BMul(q, d)), 2), d))

\* n / d rounded to the nearest natural
BRound(n, d) == Nearest(n, d, BDiv(n, d))

Dollars(x) ==
    IF IsFin(x)
    THEN [k |-> "digits", neg |-> x.neg, units |-> BRound(x.m, BagProd(x.d))]
    ELSE x

(***************************************************************************)
(* The sidebar widgets (lines 19-39).  A slider holds a value inside its   *)
(* range; a number_input is given only a default and takes any integer.    *)
(* The two percentage sliders move in steps of 0.01 and are counted in     *)
(* those steps (300 is 3.0 %).                                             *)
(***************************************************************************)
\* a Current Age slider that reaches past the least life expectancy
AgeSliderWide == [min |-> 20, max |-> 90, value |-> 45]

AgeSlider == [min |-> 20, max |-> 70, value |-> 45]
LifeSlider == [min |-> 80, max |-> 100, value |-> 95]
InflationSlider == [min |-> 0, max |-> 800, value |-> 300]
ReturnSlider == [min |-> 100, max |-> 1200, value |-> 700]

Sliders ==
    [age |-> AgeSlider, life_expectancy |-> LifeSlider,
     inflation |-> InflationSlider, return_rate |-> ReturnSlider]

NumberInputs ==
    [liquid_assets |-> 500000, liabilities |-> 50000,
     retire_a |-> 65, savings_a |-> 30000,
     retire_b |-> 62, savings_b |-> 45000]

SliderNames == DOMAIN Sliders
NumberNames == DOMAIN NumberInputs

\* the widget values of the first run
Defaults ==
    [w \in SliderNames \cup NumberNames |->
        IF w \in SliderNames THEN Sliders[w].value ELSE NumberInputs[w]]

\* the float a percentage slider returns for a position counted in steps
SliderStep == RDiv(RInt(1), RInt(100))
SliderFloat(steps) == RMul(RInt(steps), SliderStep)

(***************************************************************************)
(* Bounds of the model: how many widget changes a session makes, and the   *)
(* values a change (or the first state of an engine run) picks.            *)
(***************************************************************************)
MaxEdits == 2
AgeBack == 1
MaxHorizon == 3

InRange(sl, S) == {v \in S : sl.min <= v /\ v <= sl.max}

\* values a user moves a slider to
SlideChoices ==
    [age |-> InRange(AgeSlider, {AgeSlider.min, AgeSlider.max}),
     life_expectancy |-> InRange(LifeSlider, {LifeSlider.min, LifeSlider.max}),
     inflation |-> InRange(InflationSlider, {InflationSlider.min, 700}),
     return_rate |-> InRange(ReturnSlider, {300, ReturnSlider.max})]

\* values a user types into a number_input
TypeChoices ==
    [liquid_assets |-> {0},
     liabilities |-> {2000000},
     retire_a |-> {AgeSlider.value, LifeSlider.value, LifeSlider.min},
     savings_a |-> {0},
     retire_b |-> {AgeSlider.value, LifeSlider.value, 101},
     savings_b |-> {30000}]

VARIABLES
    widgets,          \* Streamlit's widget state: name -> value
    edits,            \* widget changes made so far
    pc,               \* the statement the running script is at
    age, life_expectancy, inflation, return_rate,
    liquid_assets, liabilities, net_start,
    retire_a, savings_a, retire_b, savings_b,
    egg_a, inc_a, grow_a, egg_b, inc_b, grow_b,
    horizon,          \* line 61: the horizon written in the header
    income_lift,      \* line 67: the text of inc_b - inc_a
    chart,            \* lines 77-79: the bars' y values
    tax_info,         \* line 90: the text of the after-tax monthly income (B)
    comparison_df     \* lines 94-98

globals ==
    <<age, life_expectancy, inflation, return_rate, liquid_assets, liabilities,
      net_start, retire_a, savings_a, retire_b, savings_b>>
results == <<egg_a, inc_a, grow_a, egg_b, inc_b, grow_b>>
display == <<horizon, income_lift, chart, tax_info, comparison_df>>
vars == <<widgets, edits, pc, globals, results, display>>

\* a name the running script has not bound yet
None == [k |-> "unset"]

(***************************************************************************)
(* The calculation engine (lines 42-54) and the two numpy_financial        *)
(* functions it calls, fv and pmt (release 1.0.0), which select the linear *)
(* form for a zero rate and otherwise divide by the rate.                  *)
(***************************************************************************)
\* _convert_when('end'), the default of fv and pmt
WhenEnd == 0

\* numpy_financial.fv
fv(rate, nper, payment, pv, when) ==
    LET temp == RPow(RAdd(RInt(1), rate), nper)
        fact == IF IsZero(rate) THEN RInt(nper)
                ELSE RDiv(RMul(RAdd(RInt(1), RMul(rate, RInt(when))),
                               RSub(temp, RInt(1))), rate)
    IN  RNeg(RAdd(RMul(pv, temp), RMul(payment, fact)))

\* numpy_financial.pmt
pmt(rate, nper, pv, fval, when) ==
    LET temp == RPow(RAdd(RInt(1), rate), nper)
        masked_rate == IF IsZero(rate) THEN RInt(1) ELSE rate
        fact == IF IsZero(rate) THEN RInt(nper)
                ELSE RDiv(RMul(RAdd(RInt(1), RMul(masked_rate, RInt(when))),
                               RSub(temp, RInt(1))), masked_rate)
    IN  RDiv(RNeg(RAdd(fval, RMul(pv, temp))), fact)

\* the ratio of line 44 without its "- 1"
RealRateRatio(nominal, infl) ==
    RDiv(RAdd(RInt(1), nominal), RAdd(RInt(1), infl))

\* line 44: the Fisher equation
RealRate(nominal, infl) ==
    RSub(RDiv(RAdd(RInt(1), nominal), RAdd(RInt(1), infl)), RInt(1))

\* line 49 with the savings and the start passed as inflows
NestEggInflows(real_r, years_grow, annual_sav, start) ==
    fv(real_r, years_grow, RInt(annual_sav), RInt(start), WhenEnd)

\* line 49
NestEgg(real_r, years_grow, annual_sav, start) ==
    fv(real_r, years_grow, RInt(-annual_sav), RInt(-start), WhenEnd)

\* line 53 with payments at the start of each period
IncomeAtStart(real_r, years_retire, egg) ==
    pmt(real_r, years_retire, RNeg(egg), RInt(0), 1)

\* line 53 with the nest egg passed as an inflow
IncomeInflow(real_r, years_retire, egg) ==
    pmt(real_r, years_retire, egg, RInt(0), WhenEnd)

\* line 53
Income(real_r, years_retire, egg) ==
    pmt(real_r, years_retire, RNeg(egg), RInt(0), WhenEnd)

\* run_model with the growth years counted from r_age down to age
run_model_reversed(r_age, annual_sav) ==
    LET real_r == RealRate(return_rate, inflation)
        years_grow == age - r_age
        years_retire == life_expectancy - r_age
        egg == NestEgg(real_r, years_grow, annual_sav, net_start)
        income == Income(real_r, years_retire, egg)
    IN  <<egg, income, years_grow>>

\* run_model reads the globals age, life_expectancy, inflation, return_rate
\* and net_start
run_model(r_age, annual_sav) ==
    LET real_r == RealRate(return_rate, inflation)
        years_grow == r_age - age
        years_retire == life_expectancy - r_age
        egg == NestEgg(real_r, years_grow, annual_sav, net_start)
        income == Income(real_r, years_retire, egg)
    IN  <<egg, income, years_grow>>

(***************************************************************************)
(* One run of the script, statement by statement.                          *)
(***************************************************************************)
\* lines 19-39: the widgets are read into the globals
Sidebar ==
    /\ pc = "sidebar"
    /\ age' = widgets.age
    /\ life_expectancy' = widgets.life_expectancy
    /\ inflation' = RDiv(SliderFloat(widgets.inflation), RInt(100))
    /\ return_rate' = RDiv(SliderFloat(widgets.return_rate), RInt(100))
    /\ liquid_assets' = widgets.liquid_assets
    /\ liabilities' = widgets.liabilities
    /\ net_start' = widgets.liquid_assets - widgets.liabilities
    /\ retire_a' = widgets.retire_a
    /\ savings_a' = widgets.savings_a
    /\ retire_b' = widgets.retire_b
    /\ savings_b' = widgets.savings_b
    /\ pc' = "call_a"
    /\ UNCHANGED <<widgets, edits, results, display>>

\* egg_a, inc_a, grow_a = r
AssignA(r) == egg_a' = r[1] /\ inc_a' = r[2] /\ grow_a' = r[3]

\* egg_b, inc_b, grow_b = r
AssignB(r) == egg_b' = r[1] /\ inc_b' = r[2] /\ grow_b' = r[3]

\* line 56
CallA ==
    /\ pc = "call_a"
    /\ AssignA(run_model(retire_a, savings_a))
    /\ pc' = "call_b"
    /\ UNCHANGED <<widgets, edits, globals, egg_b, inc_b, grow_b, display>>

\* line 57 evaluating scenario A's inputs again
CallBWithA ==
    /\ pc = "call_b"
    /\ AssignB(run_model(retire_a, savings_a))
    /\ pc' = "main"
    /\ UNCHANGED <<widgets, edits, globals, egg_a, inc_a, grow_a, display>>

\* line 57
CallB ==
    /\ pc = "call_b"
    /\ AssignB(run_model(retire_b, savings_b))
    /\ pc' = "main"
    /\ UNCHANGED <<widgets, edits, globals, egg_a, inc_a, grow_a, display>>

\* lines 61-87: header, metrics, chart, quick analysis
Main ==
    /\ pc = "main"
    /\ horizon' = life_expectancy - age
    /\ income_lift' = Dollars(RSub(inc_b, inc_a))
    /\ chart' = [a |-> <<egg_a, inc_a>>, b |-> <<egg_b, inc_b>>]
    /\ pc' = "tax"
    /\ UNCHANGED <<widgets, edits, globals, results, tax_info, comparison_df>>

\* line 90 writing the after-tax income back into inc_b
TaxLeakWritesBack ==
    /\ pc = "tax"
    /\ inc_b' = RMul(inc_b, RDiv(RInt(3), RInt(4)))
    /\ tax_info' = Dollars(RDiv(RMul(inc_b, RDiv(RInt(3), RInt(4))), RInt(12)))
    /\ pc' = "table"
    /\ UNCHANGED <<widgets, edits, globals, egg_a, inc_a, grow_a, egg_b, grow_b,
                   horizon, income_lift, chart, comparison_df>>

\* line 90: inc_b * 0.75 / 12
TaxLeak ==
    /\ pc = "tax"
    /\ tax_info' = Dollars(RDiv(RMul(inc_b, RDiv(RInt(3), RInt(4))), RInt(12)))
    /\ pc' = "table"
    /\ UNCHANGED <<widgets, edits, globals, results, horizon, income_lift, chart,
                   comparison_df>>

\* lines 94-99
Table ==
    /\ pc = "table"
    /\ comparison_df' =
          [a |-> <<retire_a, grow_a, Dollars(egg_a), Dollars(inc_a)>>,
           b |-> <<retire_b, grow_b, Dollars(egg_b), Dollars(inc_b)>>]
    /\ pc' = "done"
    /\ UNCHANGED <<widgets, edits, globals, results, horizon, income_lift, chart,
                   tax_info>>

Step == Sidebar \/ CallA \/ CallB \/ Main \/ TaxLeak \/ Table

\* a widget change stops the run and starts the script again in a fresh
\* namespace
Rerun ==
    /\ pc' = "sidebar"
    /\ age' = None /\ life_expectancy' = None
    /\ inflation' = None /\ return_rate' = None
    /\ liquid_assets' = None /\ liabilities' = None /\ net_start' = None
    /\ retire_a' = None /\ savings_a' = None
    /\ retire_b' = None /\ savings_b' = None
    /\ egg_a' = None /\ inc_a' = None /\ grow_a' = None
    /\ egg_b' = None /\ inc_b' = None /\ grow_b' = None
    /\ horizon' = None /\ income_lift' = None /\ chart' = None
    /\ tax_info' = None /\ comparison_df' = None

Slide ==
    /\ edits < MaxEdits
    /\ \E w \in SliderNames : \E v \in SlideChoices[w] :
          /\ v # widgets[w]
          /\ widgets' = [widgets EXCEPT ![w] = v]
    /\ edits' = edits + 1
    /\ Rerun

TypeNumber ==
    /\ edits < MaxEdits
    /\ \E w \in NumberNames : \E v \in TypeChoices[w] :
          /\ v # widgets[w]
          /\ widgets' = [widgets EXCEPT ![w] = v]
    /\ edits' = edits + 1
    /\ Rerun

Fresh ==
    /\ pc = "sidebar"
    /\ age = None /\ life_expectancy = None
    /\ inflation = None /\ return_rate = None
    /\ liquid_assets = None /\ liabilities = None /\ net_start = None
    /\ retire_a = None /\ savings_a = None
    /\ retire_b = None /\ savings_b = None
    /\ egg_a = None /\ inc_a = None /\ grow_a = None
    /\ egg_b = None /\ inc_b = None /\ grow_b = None
    /\ horizon = None /\ income_lift = None /\ chart = None
    /\ tax_info = None /\ comparison_df = None

\* the application: the first run with the defaults, then widget changes
Init == widgets = Defaults /\ edits = 0 /\ Fresh
Next == Step \/ Slide \/ TypeNumber
Spec == Init /\ [][Next]_vars

(***************************************************************************)
(* The engine on its own: one run of the script from any widget values of  *)
(* a bounded set.  The ages lie at the end of their sliders, which keeps   *)
(* the two horizons small; the retirement ages lie before, at, between and *)
(* at the end of [age, life_expectancy]; the rates give real rates above,  *)
(* at and below zero; net_start takes both signs.                          *)
(***************************************************************************)
EngineInputs ==
    [age : InRange(AgeSlider, (AgeSlider.max - AgeBack)..AgeSlider.max),
     life_expectancy : InRange(LifeSlider, {LifeSlider.min}),
     inflation : InRange(InflationSlider, {80, 800}),
     return_rate : InRange(ReturnSlider, {125, 800, 1200}),
     liquid_assets : {0, 1000},
     liabilities : {0, 9000},
     retire_a : {AgeSlider.max - 1, AgeSlider.max, AgeSlider.max + 2,
                 LifeSlider.min - 1, LifeSlider.min},
     savings_a : {0, 500, 5000},
     retire_b : {AgeSlider.max, AgeSlider.max + 3},
     savings_b : {500}]

InitEngine == widgets \in EngineInputs /\ edits = 0 /\ Fresh
SpecEngine == InitEngine /\ [][Step]_vars

(***************************************************************************)
(* Reference computations of the properties.                               *)
(***************************************************************************)
\* both calls of run_model have returned
Called == pc \in {"main", "tax", "table", "done"}

\* both calls of run_model have just returned
Returned == pc = "main"

\* (1 + return_rate) / (1 + inflation) - 1 from the slider positions
\* (a position is a multiple of 1/10000)
RefRate ==
    RSub(RDiv(RInt(10000 + widgets.return_rate), RInt(10000 + widgets.inflation)),
         RInt(1))

\* balance after k steps of  balance := balance * (1 + real_r) + flow
RECURSIVE Compound(_, _, _, _)
Compound(balance, real_r, flow, k) ==
    IF k = 0 THEN balance
    ELSE Compound(RAdd(RMul(balance, RAdd(RInt(1), real_r)), flow), real_r, flow, k - 1)

\* the balances after 0, 1, ..., k such steps
RECURSIVE Balances(_, _, _, _)
Balances(balance, real_r, flow, k) ==
    IF k = 0 THEN <<balance>>
    ELSE <<balance>> \o
         Balances(RAdd(RMul(balance, RAdd(RInt(1), real_r)), flow), real_r, flow, k - 1)

\* x is a finite number above zero
Positive(x) == IsFin(x) /\ RSign(x) > 0

(***************************************************************************)
(* C1.  With years_grow >= 0 the nest egg run_model returns is the balance *)
(* that starts at net_start and takes years_grow steps                     *)
(* balance := balance * (1 + real_r) + annual_sav, with the sign of that   *)
(* sum; with years_grow = 0 it is net_start whatever annual_sav is.        *)
(***************************************************************************)
EggCompounds(egg, years_grow, annual_sav) ==
    years_grow >= 0 =>
        /\ IsFin(egg)
        /\ REq(egg, Compound(RInt(net_start), RefRate, RInt(annual_sav), years_grow))
        /\ RSign(egg) =
              RSign(Compound(RInt(net_start), RefRate, RInt(annual_sav), years_grow))
        /\ years_grow = 0 => REq(egg, RInt(net_start))

C1_NestEggCompounds ==
    Returned => /\ EggCompounds(egg_a, grow_a, savings_a)
              /\ EggCompounds(egg_b, grow_b, savings_b)

C1_Witness ==
    /\ Returned
    /\ grow_a >= 2 /\ savings_a > 0 /\ net_start > 0 /\ ~IsZero(RefRate)
    /\ grow_b = 0 /\ savings_b > 0
    /\ RLt(RInt(net_start + savings_a * grow_a), egg_a)
    /\ egg_b = RInt(net_start)

(***************************************************************************)
(* C2.  With years_retire >= 1, starting from the returned nest egg and    *)
(* taking years_retire steps balance := balance * (1 + real_r) - income    *)
(* leaves exactly zero, and with a positive nest egg no earlier balance is *)
(* zero.                                                                   *)
(***************************************************************************)
Exhausts(egg, income, years_retire) ==
    years_retire >= 1 =>
        LET b == Balances(egg, RefRate, RNeg(income), years_retire)
        IN  /\ IsFin(income)
            /\ IsZero(b[years_retire + 1])
            /\ Positive(egg) => \A k \in 1..years_retire : ~IsZero(b[k])

C2_WithdrawalExhausts ==
    Returned => /\ Exhausts(egg_a, inc_a, life_expectancy - retire_a)
              /\ Exhausts(egg_b, inc_b, life_expectancy - retire_b)

C2_Witness ==
    /\ Returned
    /\ life_expectancy - retire_a >= 2 /\ Positive(egg_a) /\ Positive(inc_a)
    /\ ~IsZero(RefRate) /\ grow_a >= 1
    /\ IsZero(Balances(egg_a, RefRate, RNeg(inc_a), life_expectancy - retire_a)
                 [life_expectancy - retire_a + 1])

(***************************************************************************)
(* C3.  When return_rate equals inflation, real_r is exactly 0, the nest   *)
(* egg is net_start + annual_sav * years_grow and, with years_retire >= 1, *)
(* the income is nest egg / years_retire: both are finite, no division by  *)
(* the zero rate reaches them.                                             *)
(***************************************************************************)
StraightLine(egg, income, r_age, annual_sav) ==
    /\ IsFin(egg)
    /\ REq(egg, RInt(net_start + annual_sav * (r_age - age)))
    /\ life_expectancy - r_age >= 1 =>
          /\ IsFin(income)
          /\ REq(income, RDiv(egg, RInt(life_expectancy - r_age)))

C3_ZeroGrowth ==
    (Returned /\ widgets.return_rate = widgets.inflation) =>
        /\ RealRate(return_rate, inflation) = RInt(0)
        /\ StraightLine(egg_a, inc_a, retire_a, savings_a)
        /\ StraightLine(egg_b, inc_b, retire_b, savings_b)

C3_Witness ==
    /\ Returned
    /\ widgets.return_rate = widgets.inflation
    /\ grow_a >= 2 /\ savings_a > 0 /\ net_start # 0
    /\ life_expectancy - retire_a >= 2
    /\ Positive(egg_a) /\ Positive(inc_a)

(***************************************************************************)
(* C4.  run_model is invoked only with age <= r_age <= life_expectancy.    *)
(***************************************************************************)
InHorizon(r_age) == age <= r_age /\ r_age <= life_expectancy

\* C4: every call of run_model has age <= r_age <= life_expectancy
C4_HorizonEnforced ==
    /\ egg_a # None => InHorizon(retire_a)
    /\ egg_b # None => InHorizon(retire_b)

C4_Witness ==
    /\ pc = "done"
    /\ retire_b < age
    /\ grow_b < 0 /\ Positive(egg_b) /\ Positive(inc_b)
    /\ comparison_df.b[3] = Dollars(egg_b)

(***************************************************************************)
(* C5.  For retirement ages r1 < r2 in [age, life_expectancy], the same    *)
(* savings >= 0 and real_r > 0, run_model(r2, s) returns a strictly larger *)
(* nest egg than run_model(r1, s) and a retirement horizon smaller by      *)
(* r2 - r1.  The two scenarios of a run are such a pair when their savings *)
(* agree.                                                                  *)
(***************************************************************************)
LaterIsLarger(r1, egg1, r2, egg2) ==
    (InHorizon(r1) /\ InHorizon(r2) /\ r1 < r2) =>
        /\ RLt(egg1, egg2)
        /\ life_expectancy - r2 = (life_expectancy - r1) - (r2 - r1)

SamePlan == Returned /\ savings_a = savings_b /\ savings_a >= 0 /\ Positive(RefRate)

\* C5 as stated: for any signed net_start
C5_AnyNetStart ==
    SamePlan => /\ LaterIsLarger(retire_a, egg_a, retire_b, egg_b)
                /\ LaterIsLarger(retire_b, egg_b, retire_a, egg_a)

\* the first year's change real_r * net_start + annual_sav is above 0
FirstYearGain ==
    Positive(RAdd(RMul(RefRate, RInt(net_start)), RInt(savings_a)))

\* C5 with the first year's change above 0: the later retirement age has
\* the strictly larger nest egg and the horizon smaller by r2 - r1
C5_LaterIsLarger ==
    (SamePlan /\ FirstYearGain) =>
        /\ LaterIsLarger(retire_a, egg_a, retire_b, egg_b)
        /\ LaterIsLarger(retire_b, egg_b, retire_a, egg_a)

C5_Witness ==
    /\ Returned /\ SamePlan /\ FirstYearGain
    /\ net_start < 0
    /\ InHorizon(retire_a) /\ InHorizon(retire_b)
    /\ retire_b - retire_a >= 2
    /\ RLt(egg_a, egg_b)

(***************************************************************************)
(* C6.  With the nest egg and real_r held fixed, the withdrawal computed   *)
(* for n2 periods is strictly smaller than the one for n1 < n2 periods,    *)
(* and both have the sign of the nest egg.  The horizons compared are the  *)
(* run's own and 1..MaxHorizon.                                            *)
(***************************************************************************)
Horizons(r_age) == {n \in (1..MaxHorizon) \cup {life_expectancy - r_age} : n >= 1}

\* the withdrawal over n periods: the run's own income for the run's horizon
Withdrawal(egg, income, r_age, n) ==
    IF n = life_expectancy - r_age THEN income
    ELSE Income(RealRate(return_rate, inflation), n, egg)

SameSign(x, y) == IsFin(x) /\ IsFin(y) /\ RSign(x) = RSign(y)

\* the withdrawals over the horizons 1..Len, the run's own included
Withdrawals(egg, income, r_age) ==
    [n \in 1..Max2(MaxHorizon, life_expectancy - r_age) |->
        IF n \in Horizons(r_age) THEN Withdrawal(egg, income, r_age, n) ELSE RNaN]

\* strictly smaller for the longer horizon whatever the nest egg; w the
\* withdrawals by horizon
LongerPaysLess(egg, w, r_age) ==
    \A n1, n2 \in Horizons(r_age) :
        n1 < n2 =>
            /\ RLt(w[n2], w[n1])
            /\ SameSign(w[n1], egg)
            /\ SameSign(w[n2], egg)

\* C6 as stated: strictly smaller and of the nest egg's sign for any nest egg
C6_AnyNestEgg ==
    Returned => /\ LongerPaysLess(egg_a, Withdrawals(egg_a, inc_a, retire_a), retire_a)
              /\ LongerPaysLess(egg_b, Withdrawals(egg_b, inc_b, retire_b), retire_b)

\* strictly smaller for a nest egg above zero, strictly larger
\* (smaller in size) for one below zero, and always of the nest egg's sign
LongerPaysLessOfSize(egg, w, r_age) ==
    \A n1, n2 \in Horizons(r_age) :
        n1 < n2 =>
            /\ SameSign(w[n1], egg)
            /\ SameSign(w[n2], egg)
            /\ RSign(egg) > 0 => RLt(w[n2], w[n1])
            /\ RSign(egg) < 0 => RLt(w[n1], w[n2])

\* C6 by the sign of the nest egg: the longer horizon pays strictly less of
\* a nest egg above zero, strictly more (less in size) of one below zero,
\* and every withdrawal has the nest egg's sign
C6_LongerPaysLess ==
    Returned =>
        /\ LongerPaysLessOfSize(egg_a, Withdrawals(egg_a, inc_a, retire_a), retire_a)
        /\ LongerPaysLessOfSize(egg_b, Withdrawals(egg_b, inc_b, retire_b), retire_b)

C6_Witness ==
    /\ Returned
    /\ life_expectancy - retire_a > MaxHorizon
    /\ Positive(egg_a) /\ Positive(inc_a)
    /\ RSign(egg_b) < 0 /\ RSign(inc_b) < 0
    /\ RLt(inc_a, Income(RealRate(return_rate, inflation), MaxHorizon, egg_a))
    /\ RLt(Income(RealRate(return_rate, inflation), 1, egg_b), inc_b)

(***************************************************************************)
(* C7.  With r_age = life_expectancy (years_retire = 0) the income         *)
(* run_model returns is zero or undefined, never an infinite or a nonzero  *)
(* amount.  nan is taken as the undefined outcome.                         *)
(***************************************************************************)
NoIncome(income) == IsZero(income) \/ income = RNaN

\* C7: with years_retire = 0 the income is zero or nan
C7_ZeroHorizonIncome ==
    /\ (inc_a # None /\ retire_a = life_expectancy) => NoIncome(inc_a)
    /\ (inc_b # None /\ retire_b = life_expectancy) => NoIncome(inc_b)

C7_Witness ==
    /\ pc = "done"
    /\ retire_a = life_expectancy
    /\ Positive(egg_a)
    /\ inc_a = RInf(FALSE)

(***************************************************************************)
(* C8.  Whatever widget changes and reruns came before, the results of a   *)
(* run are run_model of the current widgets' values and the scenario's own *)
(* retirement age and savings; scenario A's are there before B is          *)
(* evaluated, and after the calls the globals still hold what the sidebar  *)
(* read.                                                                   *)
(***************************************************************************)
\* the same number: equal, or both nan, or the same infinity
Same(x, y) ==
    IF IsFin(x) /\ IsFin(y) THEN REq(x, y)
    ELSE x.k = y.k /\ (x.k = "inf" => x.neg = y.neg)

\* the results (egg, income, years_grow) r are those of the widgets' values
OfWidgets(r, r_age, annual_sav) ==
    /\ r[3] = r_age - widgets.age
    /\ Same(r[1], NestEgg(RefRate, r_age - widgets.age, annual_sav,
                          widgets.liquid_assets - widgets.liabilities))
    /\ Same(r[2], Income(RefRate, widgets.life_expectancy - r_age, r[1]))

GlobalsAsRead ==
    /\ age = widgets.age /\ life_expectancy = widgets.life_expectancy
    /\ Same(inflation, RDiv(RInt(widgets.inflation), RInt(10000)))
    /\ Same(return_rate, RDiv(RInt(widgets.return_rate), RInt(10000)))
    /\ liquid_assets = widgets.liquid_assets /\ liabilities = widgets.liabilities
    /\ net_start = widgets.liquid_assets - widgets.liabilities
    /\ retire_a = widgets.retire_a /\ savings_a = widgets.savings_a
    /\ retire_b = widgets.retire_b /\ savings_b = widgets.savings_b

\* C8: results and globals are those of the current widgets' values
C8_Recomputed ==
    /\ pc = "call_b" =>
          /\ OfWidgets(<<egg_a, inc_a, grow_a>>, widgets.retire_a, widgets.savings_a)
          /\ egg_b = None /\ inc_b = None /\ grow_b = None
          /\ GlobalsAsRead
    /\ Called =>
          /\ OfWidgets(<<egg_a, inc_a, grow_a>>, widgets.retire_a, widgets.savings_a)
          /\ OfWidgets(<<egg_b, inc_b, grow_b>>, widgets.retire_b, widgets.savings_b)
          /\ GlobalsAsRead

C8_Witness ==
    /\ pc = "done" /\ edits = MaxEdits
    /\ widgets.retire_a # Defaults.retire_a
    /\ widgets.return_rate # Defaults.return_rate
    /\ IsFin(inc_a) /\ IsFin(inc_b)
    /\ ~Same(egg_a, egg_b) /\ ~Same(inc_a, inc_b)

(***************************************************************************)
(* C9.  Whatever positions the Current Age and Life Expectancy sliders are *)
(* moved to, life_expectancy > age, and the horizon in the header is       *)
(* life_expectancy - age > 0.                                              *)
(***************************************************************************)
C9_HorizonPositive ==
    /\ widgets.life_expectancy > widgets.age
    /\ pc # "sidebar" => life_expectancy > age
    /\ pc \in {"tax", "table", "done"} =>
          horizon = life_expectancy - age /\ horizon > 0

C9_Witness ==
    /\ pc = "done"
    /\ age = AgeSlider.max /\ life_expectancy = LifeSlider.min
    /\ horizon = LifeSlider.min - AgeSlider.max

(***************************************************************************)
(* C10.  The statement that shows the after-tax monthly income of B        *)
(* changes none of egg_a, inc_a, grow_a, egg_b, inc_b, grow_b and no       *)
(* engine input, and the chart and the comparison table carry the inc_b    *)
(* that run_model returned.                                                *)
(***************************************************************************)
TaxStep == pc = "tax" /\ pc' = "table"

\* what run_model returns as B's income for the widgets' values
PreTaxB == Income(RefRate, widgets.life_expectancy - widgets.retire_b, egg_b)

\* C10: the tax statement changes no result and no input, and later uses
\* carry the pre-tax inc_b
C10_TaxDisplayOnly ==
    /\ [][TaxStep => UNCHANGED <<widgets, globals, results, chart>>]_vars
    /\ [](pc \in {"table", "done"} => Same(inc_b, PreTaxB) /\ Same(chart.b[2], PreTaxB))
    /\ [](pc = "done" => comparison_df.b[4] = Dollars(PreTaxB))

C10_Witness ==
    /\ pc = "done"
    /\ Positive(inc_b)
    /\ tax_info.units # <<>> /\ tax_info # Dollars(inc_b)
    /\ comparison_df.b[4] = Dollars(inc_b) /\ chart.b[2] = inc_b

=============================================================================
